---- MODULE Spec2Model ----
(***************************************************************************)
(* The request handlers of src/api/controllers/catController.ts and        *)
(* src/api/controllers/userController.ts as a state machine.               *)
(*                                                                         *)
(* One action is one invocation of one handler, from its first statement   *)
(* to its return, the single awaited database call included.  The state    *)
(* is the two collections the handlers work on and, for the invocation     *)
(* that ran last, what the handler was given and what it did: the          *)
(* validator's result, res.locals.user, the calls it made to res.json and  *)
(* to next, and the database operations it issued.                         *)
(***************************************************************************)
EXTENDS Integers, Sequences, FiniteSets, TLC

VARIABLES
    cats,       \* the cat collection: a set of cat documents
    users,      \* the user collection: a set of user documents
    cats0,      \* the cat collection when the last invocation started
    users0,     \* the user collection when the last invocation started
    handler,    \* the handler invoked last ("none" before the first)
    errors,     \* the validator's result in that invocation: a sequence
    caller,     \* res.locals.user as that invocation read it: {u}, or {} when
                \* it is undefined or was not read
    req,        \* the parts of the request that invocation read
    calls,      \* its calls of res.json and next, in order
    dbOps,      \* the database operations it issued, in order
    rectArgs    \* the arguments of its call of rectangleBounds, if any

vars == <<cats, users, cats0, users0, handler, errors, caller, req, calls,
          dbOps, rectArgs>>

-----------------------------------------------------------------------------
(* Bounds of the model *)

\* the longest list of failures the validator reports
MaxErrs == 2
\* the most documents the cat collection holds
MaxCats == 1
\* bcrypt.genSaltSync(12)
SaltRounds == 12

-----------------------------------------------------------------------------
(* Values *)

\* the _ids of cat documents
CatIds == 1 .. MaxCats

\* the _ids of user documents: the identities the session tokens name
UserIds == { 1 }

\* a failure as express-validator reports it: {msg, param}
ErrorKinds ==
    { [msg |-> "Invalid value", param |-> "id"],
      [msg |-> "Required", param |-> "name"] }

RECURSIVE SeqsUpTo(_, _)
SeqsUpTo(S, n) ==
    IF n = 0 THEN { <<>> }
    ELSE LET shorter == SeqsUpTo(S, n - 1)
         IN  shorter \cup { Append(s, x) : s \in shorter, x \in S }

ErrorLists == SeqsUpTo(ErrorKinds, MaxErrs)

Roles == { "user", "admin" }

\* what the authentication middleware leaves in res.locals.user
SessionUsers ==
    { [_id |-> i, user_name |-> "a", email |-> "a@x", role |-> r] :
        i \in UserIds, r \in Roles }

\* res.locals.user behind the authentication middleware: a session user
Authenticated == { {u} : u \in SessionUsers }

\* res.locals.user as checkToken allows for it: undefined ({}) or a session
\* user
Callers == { {} } \cup Authenticated

\* res.locals.coords, and a cat's location
Coords == { [lat |-> 1, lng |-> 3], [lat |-> 3, lng |-> 1] }

\* req.file: undefined ({}) or the stored upload
Files == { {}, {[filename |-> "f1"]} }

\* the outcomes of an awaited database call that the handlers distinguish:
\* it resolves with its result, it resolves with null, or it rejects
DbOutcomes == { "ok", "null", "throws" }
DbErrorMessage == "db error"

-----------------------------------------------------------------------------
(* Errors *)

\* new CustomError(message, status)
CustomError(message, status) == [message |-> message, statusCode |-> status]

\* an Error that is no CustomError: it has a message and no status
PlainError(message) == [message |-> message]

-----------------------------------------------------------------------------
(* The validation gate *)

\* validationResult(x).array(): the failures the validation chains left on
\* the request object x; an object that carries none (req.params) has none
ValidationResult(x) ==
    IF "validationErrors" \in DOMAIN x THEN x.validationErrors ELSE <<>>

\* (error) => `${error.msg}: ${error.param}`
Render(error) == << error.msg \o ": " \o error.param >>

\* (error) => { `${error.msg}: ${error.param}`; } : a block body without a
\* return, whose value is undefined (the empty sequence)
RenderVoid(error) == << >>

\* Array.prototype.join: undefined elements are rendered as ""
RECURSIVE Join(_, _)
Join(xs, sep) ==
    IF Len(xs) = 0 THEN ""
    ELSE LET str(x) == IF x = <<>> THEN "" ELSE x[1]
         IN  IF Len(xs) = 1 THEN str(xs[1])
             ELSE str(xs[1]) \o sep \o Join(Tail(xs), sep)

\* errors.array().map(...).join(', ') of the eleven handlers that render
Messages(errs) == Join([i \in 1 .. Len(errs) |-> Render(errs[i])], ", ")

\* the same of userDeleteCurrent, whose callback returns nothing
MessagesVoid(errs) == Join([i \in 1 .. Len(errs) |-> RenderVoid(errs[i])], ", ")

-----------------------------------------------------------------------------
(* One invocation: what it has done so far *)

\* the start of an invocation: nothing called, nothing issued, nothing thrown
Start ==
    [ calls |-> <<>>, dbOps |-> <<>>, cats |-> cats, users |-> users,
      thrown |-> <<>>, rect |-> <<>> ]

\* throw e
Throw(r, e) == [r EXCEPT !.thrown = <<e>>]

\* next(e)
CallNext(r, e) == [r EXCEPT !.calls = Append(@, [fn |-> "next", arg |-> e])]

\* res.json(body)
CallJson(r, body) == [r EXCEPT !.calls = Append(@, [fn |-> "json", arg |-> body])]

\* a call of a method of catModel or userModel, and how it ends
Op(model, op, outcome) == [model |-> model, op |-> op, outcome |-> outcome]
OpWith(model, op, outcome, doc) ==
    [model |-> model, op |-> op, outcome |-> outcome, doc |-> doc]
Issue(r, op) == [r EXCEPT !.dbOps = Append(@, op)]

\* catch (error) { next(new CustomError((error as Error).message, 500)); }
Catch500(r) ==
    IF r.thrown = <<>> THEN r
    ELSE CallNext([r EXCEPT !.thrown = <<>>],
                  CustomError(r.thrown[1].message, 500))

\* catch (error) { next(error); }
CatchForward(r) ==
    IF r.thrown = <<>> THEN r
    ELSE CallNext([r EXCEPT !.thrown = <<>>], r.thrown[1])

\* response bodies
NullBody == [kind |-> "null"]
DocBody(d) == [kind |-> "doc", doc |-> d]
ListBody(ds) == [kind |-> "list", docs |-> ds]
Envelope(message, data) == [kind |-> "envelope", message |-> message, data |-> data]

-----------------------------------------------------------------------------
(* The collections *)

\* Model.findById(id): the documents with that _id (none: null)
FindById(coll, id) == { d \in coll : d._id = id }

\* the document d with the fields of body written over its own
Merge(d, body) ==
    [f \in DOMAIN d |-> IF f \in DOMAIN body THEN body[f] ELSE d[f]]

\* the collection after findByIdAndUpdate(id, body)
UpdateById(coll, id, body) ==
    { IF d._id = id THEN Merge(d, body) ELSE d : d \in coll }

\* the collection after findByIdAndDelete(id)
DeleteById(coll, id) == { d \in coll : d._id # id }

\* the _id of a document inserted next: the least one not in use
FreshId(coll, ids) ==
    CHOOSE i \in ids \ { d._id : d \in coll } :
        \A j \in ids \ { d._id : d \in coll } : i <= j

\* .select('_id user_name email')
UserOutput(u) == [_id |-> u._id, user_name |-> u.user_name, email |-> u.email]

\* .select('-password -role')
WithoutPasswordAndRole(u) == UserOutput(u)

\* .populate('owner', 'user_name email'): the owner's _id replaced by the
\* selected fields of the user it names (with _id, which a selection keeps),
\* or by null ({}) when there is no such user
PopulateOwner(c, us) ==
    [c EXCEPT !.owner = { UserOutput(u) : u \in FindById(us, c.owner) }]

\* .populate('owner'): the same with the whole user document
PopulateOwnerFull(c, us) == [c EXCEPT !.owner = FindById(us, c.owner)]

-----------------------------------------------------------------------------
(* The bounding box *)

\* a string as the sequence of its characters
DigitValue ==
    ("0" :> 0) @@ ("1" :> 1) @@ ("2" :> 2) @@ ("3" :> 3) @@ ("4" :> 4) @@
    ("5" :> 5) @@ ("6" :> 6) @@ ("7" :> 7) @@ ("8" :> 8) @@ ("9" :> 9)

\* the value parseInt gives a string that holds no number
NaN == [nan |-> TRUE]

\* the value of the longest prefix of s made of decimal digits, after acc
RECURSIVE DigitsValue(_, _)
DigitsValue(s, acc) ==
    IF Len(s) = 0 \/ s[1] \notin DOMAIN DigitValue THEN acc
    ELSE DigitsValue(Tail(s), 10 * acc + DigitValue[s[1]])

\* parseInt(s): an optional sign, then the leading decimal digits; what
\* follows them (a fraction) is ignored
ParseInt(s) ==
    LET neg  == Len(s) > 0 /\ s[1] = "-"
        body == IF Len(s) > 0 /\ s[1] \in {"-", "+"} THEN Tail(s) ELSE s
    IN  IF Len(body) = 0 \/ body[1] \notin DOMAIN DigitValue THEN NaN
        ELSE IF neg THEN 0 - DigitsValue(body, 0) ELSE DigitsValue(body, 0)

\* the first two elements of s.split(','), as [a, b] = s.split(',') binds them
RECURSIVE UpTo(_, _)
UpTo(s, sep) ==
    IF Len(s) = 0 \/ s[1] = sep THEN <<>> ELSE <<s[1]>> \o UpTo(Tail(s), sep)

SplitPair(s) ==
    LET first == UpTo(s, ",")
        rest  == SubSeq(s, Len(first) + 2, Len(s))
    IN  << first, UpTo(rest, ",") >>

\* rectangleBounds(topRight, bottomLeft): the closed polygon over the
\* rectangle with these two opposite corners
rectangleBounds(topRight, bottomLeft) ==
    << [lat |-> bottomLeft.lat, lng |-> bottomLeft.lng],
       [lat |-> topRight.lat,   lng |-> bottomLeft.lng],
       [lat |-> topRight.lat,   lng |-> topRight.lng],
       [lat |-> bottomLeft.lat, lng |-> topRight.lng],
       [lat |-> bottomLeft.lat, lng |-> bottomLeft.lng] >>

\* {$geoWithin: {$geometry: polygon}} of a point, the polygon a rectangle
GeoWithin(p, polygon) ==
    /\ \E i \in 1 .. Len(polygon) : polygon[i].lat <= p.lat
    /\ \E i \in 1 .. Len(polygon) : polygon[i].lat >= p.lat
    /\ \E i \in 1 .. Len(polygon) : polygon[i].lng <= p.lng
    /\ \E i \in 1 .. Len(polygon) : polygon[i].lng >= p.lng

\* req.query.topRight and req.query.bottomLeft
TopRights ==
    { <<"2", ",", "4">>, <<"4", ",", "2">>, <<"1", "0", ",", "1", "0">> }
BottomLefts ==
    { <<"0", ",", "0">>, <<"-", "1", ",", "0">>, <<"2", ".", "5", ",", "0">> }

-----------------------------------------------------------------------------
(* Requests *)

\* req.body of catPut and catPutAdmin
CatUpdates == { [cat_name |-> "n1"], [cat_name |-> "n2"] }

\* req.body of catPost
CatInputs == { [cat_name |-> "n1"] }

\* a request whose validation failed, on a route with an id: the handler
\* does not come to read the id, and one stands for all
Rejected(ids) ==
    { [validationErrors |-> e, params |-> [id |-> CHOOSE i \in ids : TRUE]] :
        e \in ErrorLists \ { <<>> } }

\* the same on a route without
RejectedNoParams == { [validationErrors |-> e] : e \in ErrorLists \ { <<>> } }

\* what an invocation read of its request: when the gate rejects it, the
\* failures alone
Read(rq, errs) ==
    IF errs # <<>> THEN [validationErrors |-> rq.validationErrors] ELSE rq

\* the validation gate of the handlers that render the failures
Gate(r, errs) ==
    IF errs # <<>> THEN Throw(r, CustomError(Messages(errs), 400)) ELSE r

-----------------------------------------------------------------------------
(* catController.ts: what one invocation does, given the request rq,       *)
(* res.locals.user (who) and the outcome of its database call (db)         *)

\* an awaited call that rejects
DbThrows(r) == Throw(r, PlainError(DbErrorMessage))

catGetByUserRun(rq, who, db) ==
    LET r0 == Gate(Start, ValidationResult(rq))
    IN  IF r0.thrown # <<>> THEN r0
        ELSE LET u  == CHOOSE x \in who : TRUE
                 r1 == Issue(r0, Op("cat", "find", db))
             IN  IF db = "throws" THEN DbThrows(r1)
                 ELSE IF db = "null"
                      THEN CallNext(r1, CustomError("No cats found", 404))
                 ELSE CallJson(r1, ListBody({ c \in cats : c.owner = u._id }))

catGetByBoundingBoxRun(rq, who, db) ==
    LET r0 == Gate(Start, ValidationResult(rq))
    IN  IF r0.thrown # <<>> THEN r0
        ELSE LET tr   == SplitPair(rq.query.topRight)
                 bl   == SplitPair(rq.query.bottomLeft)
                 c1   == [lng |-> ParseInt(tr[1]), lat |-> ParseInt(tr[2])]
                 c2   == [lat |-> ParseInt(bl[1]), lng |-> ParseInt(bl[2])]
                 rect == rectangleBounds(c1, c2)
                 r1   == Issue([r0 EXCEPT !.rect = << <<c1, c2>> >>],
                               Op("cat", "find", db))
             IN  IF db = "throws" THEN DbThrows(r1)
                 ELSE IF db = "null"
                      THEN CallNext(r1, CustomError("No cats found", 404))
                 ELSE CallJson(r1,
                        ListBody({ c \in cats : GeoWithin(c.location, rect) }))

catPutAdminRun(rq, who, db) ==
    LET r0 == Gate(Start, ValidationResult(rq))
    IN  IF r0.thrown # <<>> THEN r0
        ELSE IF (CHOOSE x \in who : TRUE).role # "admin" THEN r0
        ELSE LET r1 == Issue(r0, Op("cat", "findByIdAndUpdate", db))
             IN  IF db = "throws" THEN DbThrows(r1)
                 ELSE IF FindById(cats, rq.params.id) = {}
                      THEN CallNext(r1, CustomError("Cat not found", 404))
                 ELSE LET after == UpdateById(cats, rq.params.id, rq.body)
                          cat   == CHOOSE c \in FindById(after, rq.params.id) : TRUE
                      IN  CallJson([r1 EXCEPT !.cats = after],
                                   Envelope("Cat updated", cat))

\* catDeleteAdmin without its check of the caller's role
catDeleteAdminRunAnyRole(rq, who, db) ==
    LET r0 == Gate(Start, ValidationResult(rq))
    IN  IF r0.thrown # <<>> THEN r0
        ELSE LET r1 == Issue(r0, Op("cat", "findByIdAndDelete", db))
             IN  IF db = "throws" THEN DbThrows(r1)
                 ELSE IF FindById(cats, rq.params.id) = {}
                      THEN CallNext(r1, CustomError("No cat found", 404))
                 ELSE LET cat == CHOOSE c \in FindById(cats, rq.params.id) : TRUE
                      IN  CallJson(
                            [r1 EXCEPT !.cats = DeleteById(cats, rq.params.id)],
                            Envelope("Cat deleted", PopulateOwnerFull(cat, users)))

catDeleteAdminRun(rq, who, db) ==
    LET r0 == Gate(Start, ValidationResult(rq))
    IN  IF r0.thrown # <<>> THEN r0
        ELSE IF (CHOOSE x \in who : TRUE).role # "admin" THEN r0
        ELSE LET r1 == Issue(r0, Op("cat", "findByIdAndDelete", db))
             IN  IF db = "throws" THEN DbThrows(r1)
                 ELSE IF FindById(cats, rq.params.id) = {}
                      THEN CallNext(r1, CustomError("No cat found", 404))
                 ELSE LET cat == CHOOSE c \in FindById(cats, rq.params.id) : TRUE
                      IN  CallJson(
                            [r1 EXCEPT !.cats = DeleteById(cats, rq.params.id)],
                            Envelope("Cat deleted", PopulateOwnerFull(cat, users)))

\* catDelete with the deletion moved before the validation gate
catDeleteRunUngated(rq, who, db) ==
    LET r1 == Issue(Start, Op("cat", "findByIdAndDelete", db))
        r2 == [r1 EXCEPT !.cats = DeleteById(cats, rq.params.id)]
        r3 == Gate(r2, ValidationResult(rq))
    IN  IF r3.thrown # <<>> THEN r3
        ELSE IF db = "throws" THEN DbThrows(r1)
        ELSE IF FindById(cats, rq.params.id) = {}
             THEN CallNext(r1, CustomError("No cat found", 404))
        ELSE CallJson(r2, Envelope("Cat deleted",
                        CHOOSE c \in FindById(cats, rq.params.id) : TRUE))

catDeleteRun(rq, who, db) ==
    LET r0 == Gate(Start, ValidationResult(rq))
    IN  IF r0.thrown # <<>> THEN r0
        ELSE LET r1 == Issue(r0, Op("cat", "findByIdAndDelete", db))
             IN  IF db = "throws" THEN DbThrows(r1)
                 ELSE IF FindById(cats, rq.params.id) = {}
                      THEN CallNext(r1, CustomError("No cat found", 404))
                 ELSE LET cat == CHOOSE c \in FindById(cats, rq.params.id) : TRUE
                      IN  CallJson(
                            [r1 EXCEPT !.cats = DeleteById(cats, rq.params.id)],
                            Envelope("Cat deleted", cat))

\* catPut with the message of the delete handlers on a missing cat
catPutRunOtherMessage(rq, who, db) ==
    LET r0 == Gate(Start, ValidationResult(rq))
    IN  IF r0.thrown # <<>> THEN r0
        ELSE LET r1 == Issue(r0, Op("cat", "findByIdAndUpdate", db))
             IN  IF db = "throws" THEN DbThrows(r1)
                 ELSE IF FindById(cats, rq.params.id) = {}
                      THEN CallNext(r1, CustomError("No cat found", 404))
                 ELSE LET after == UpdateById(cats, rq.params.id, rq.body)
                          cat   == CHOOSE c \in FindById(after, rq.params.id) : TRUE
                      IN  CallJson([r1 EXCEPT !.cats = after],
                                   Envelope("Cat updated", cat))

catPutRun(rq, who, db) ==
    LET r0 == Gate(Start, ValidationResult(rq))
    IN  IF r0.thrown # <<>> THEN r0
        ELSE LET r1 == Issue(r0, Op("cat", "findByIdAndUpdate", db))
             IN  IF db = "throws" THEN DbThrows(r1)
                 ELSE IF FindById(cats, rq.params.id) = {}
                      THEN CallNext(r1, CustomError("Cat not found", 404))
                 ELSE LET after == UpdateById(cats, rq.params.id, rq.body)
                          cat   == CHOOSE c \in FindById(after, rq.params.id) : TRUE
                      IN  CallJson([r1 EXCEPT !.cats = after],
                                   Envelope("Cat updated", cat))

catGetRun(rq, who, db) ==
    LET r0 == Gate(Start, ValidationResult(rq))
    IN  IF r0.thrown # <<>> THEN r0
        ELSE LET r1 == Issue(r0, Op("cat", "findById", db))
             IN  IF db = "throws" THEN DbThrows(r1)
                 ELSE IF FindById(cats, rq.params.id) = {}
                      THEN CallNext(r1, CustomError("No cat found", 404))
                 ELSE LET cat == CHOOSE c \in FindById(cats, rq.params.id) : TRUE
                      IN  CallJson(r1, DocBody(PopulateOwner(cat, users)))

catListGetRun(rq, who, db) ==
    LET r1 == Issue(Start, Op("cat", "find", db))
    IN  IF db = "throws" THEN DbThrows(r1)
        ELSE IF db = "null"
             THEN CallNext(r1, CustomError("No cats found", 404))
        ELSE CallJson(r1, ListBody({ PopulateOwner(c, users) : c \in cats }))

\* the document catPost hands to catModel.create
NewCat(rq, u) ==
    [ cat_name |-> rq.body.cat_name, location |-> rq.coords,
      owner |-> u._id, filename |-> (CHOOSE f \in rq.file : TRUE).filename ]

\* the document the collection stores for it
Stored(doc, id) ==
    [f \in DOMAIN doc \cup {"_id"} |-> IF f = "_id" THEN id ELSE doc[f]]

catPostRun(rq, who, db) ==
    LET r0 == Gate(Start, ValidationResult(rq))
    IN  IF r0.thrown # <<>> THEN r0
        ELSE IF rq.file = {} THEN Throw(r0, CustomError("File not found", 400))
        ELSE LET doc == NewCat(rq, CHOOSE x \in who : TRUE)
                 r1  == Issue(r0, OpWith("cat", "create", db, doc))
             IN  IF db = "throws" THEN DbThrows(r1)
                 ELSE LET cat == Stored(doc, FreshId(cats, CatIds))
                      IN  CallJson([r1 EXCEPT !.cats = cats \cup {cat}],
                                   Envelope("Cat created", cat))

-----------------------------------------------------------------------------
(* userController.ts *)

\* req.body of userPost: with and without a role of the client's choosing
UserInputs ==
    { [user_name |-> "a", email |-> "a@x", password |-> "pw"],
      [user_name |-> "a", email |-> "a@x", password |-> "pw", role |-> "admin"] }

\* req.body of userPutCurrent
UserUpdates == { [user_name |-> "b"] }

\* bcrypt.hashSync(password, bcrypt.genSaltSync(rounds))
HashSync(password, rounds) == "$2a$" \o ToString(rounds) \o "$" \o password

\* {role: 'user', ...req.body}: the role of the body, when it has one
NewUserKeepRole(body) ==
    [f \in DOMAIN body \cup {"role"} |->
        IF f = "role"
        THEN (IF "role" \in DOMAIN body THEN body.role ELSE "user")
        ELSE IF f = "password" THEN HashSync(body.password, SaltRounds)
        ELSE body[f]]

\* {...req.body, role: 'user'}, req.body.password already hashed
NewUser(body) ==
    [f \in DOMAIN body \cup {"role"} |->
        IF f = "role" THEN "user"
        ELSE IF f = "password" THEN HashSync(body.password, SaltRounds)
        ELSE body[f]]

userGetRun(rq, who, db) ==
    LET r0 == Gate(Start, ValidationResult(rq))
    IN  IF r0.thrown # <<>> THEN r0
        ELSE LET r1 == Issue(r0, Op("user", "findById", db))
             IN  IF db = "throws" THEN DbThrows(r1)
                 ELSE IF FindById(users, rq.params.id) = {}
                      THEN CallJson(r1, NullBody)
                 ELSE CallJson(r1, DocBody(UserOutput(
                        CHOOSE u \in FindById(users, rq.params.id) : TRUE)))

userListGetRun(rq, who, db) ==
    LET r1 == Issue(Start, Op("user", "find", db))
    IN  IF db = "throws" THEN DbThrows(r1)
        ELSE IF db = "null"
             THEN CallJson(CallNext(r1, CustomError("No users found", 404)),
                           NullBody)
        ELSE CallJson(r1, ListBody({ WithoutPasswordAndRole(u) : u \in users }))

userPostRun(rq, who, db) ==
    LET r0 == Gate(Start, ValidationResult(rq))
    IN  IF r0.thrown # <<>> THEN r0
        ELSE LET doc == NewUser(rq.body)
                 r1  == Issue(r0, OpWith("user", "create", db, doc))
             IN  IF db = "throws" THEN DbThrows(r1)
                 ELSE LET user == Stored(doc, FreshId(users, UserIds))
                      IN  CallJson([r1 EXCEPT !.users = users \cup {user}],
                                   Envelope("User created", UserOutput(user)))

userPutCurrentRun(rq, who, db) ==
    LET r0 == Gate(Start, ValidationResult(rq))
    IN  IF r0.thrown # <<>> THEN r0
        ELSE LET id == (CHOOSE x \in who : TRUE)._id
                 r1 == Issue(r0, Op("user", "findByIdAndUpdate", db))
             IN  IF db = "throws" THEN DbThrows(r1)
                 ELSE IF FindById(users, id) = {}
                      THEN CallNext(r1, CustomError("Not found", 404))
                 ELSE LET after == UpdateById(users, id, rq.body)
                          user  == CHOOSE u \in FindById(after, id) : TRUE
                      IN  CallJson([r1 EXCEPT !.users = after],
                                   Envelope("User modified", UserOutput(user)))

\* the gate of userDeleteCurrent: validationResult(req.params), and a
\* callback that renders nothing
GateDeleteCurrent(r, errs) ==
    IF errs # <<>> THEN Throw(r, CustomError(MessagesVoid(errs), 400)) ELSE r

userDeleteCurrentRun(rq, who, db) ==
    LET r0 == GateDeleteCurrent(Start, ValidationResult(rq.params))
    IN  IF r0.thrown # <<>> THEN r0
        ELSE LET u  == CHOOSE x \in who : TRUE
                 r1 == Issue(r0, Op("user", "findByIdAndDelete", db))
             IN  IF db = "throws" THEN DbThrows(r1)
                 ELSE IF FindById(users, u._id) = {}
                      THEN CallNext(r1, CustomError("User not found", 404))
                 ELSE CallJson([r1 EXCEPT !.users = DeleteById(users, u._id)],
                               Envelope("User deleted", UserOutput(u)))

\* checkToken looking the session user up in the collection
checkTokenRunLookup(rq, who, db) ==
    IF who = {} THEN CallNext(Start, CustomError("Token is not valid", 403))
    ELSE LET r1 == Issue(Start, Op("user", "findById", db))
         IN  CallJson(r1, DocBody(UserOutput(CHOOSE x \in who : TRUE)))

checkTokenRun(rq, who, db) ==
    IF who = {} THEN CallNext(Start, CustomError("Token is not valid", 403))
    ELSE CallJson(Start, DocBody(UserOutput(CHOOSE x \in who : TRUE)))

-----------------------------------------------------------------------------
(* The state machine *)

Init ==
    /\ cats = {}
    /\ users = {}
    /\ cats0 = {}
    /\ users0 = {}
    /\ handler = "none"
    /\ errors = <<>>
    /\ caller = {}
    /\ req = [validationErrors |-> <<>>]
    /\ calls = <<>>
    /\ dbOps = <<>>
    /\ rectArgs = <<>>

\* the invocation of handler h is over: errs is what its validator reported,
\* r what it did
Finish(h, rq, errs, who, r) ==
    /\ handler' = h
    /\ req' = Read(rq, errs)
    /\ errors' = errs
    /\ caller' = who
    /\ calls' = r.calls
    /\ dbOps' = r.dbOps
    /\ rectArgs' = r.rect
    /\ cats' = r.cats
    /\ users' = r.users
    /\ cats0' = cats
    /\ users0' = users

Accepted == [validationErrors |-> <<>>]
With(rq, f, v) == [g \in DOMAIN rq \cup {f} |-> IF g = f THEN v ELSE rq[g]]

catGetByUser ==
    \/ \E rq \in RejectedNoParams :
         Finish("catGetByUser", rq, ValidationResult(rq), {},
                Catch500(catGetByUserRun(rq, {}, "ok")))
    \/ \E who \in Authenticated, db \in DbOutcomes :
         Finish("catGetByUser", Accepted, <<>>, who,
                Catch500(catGetByUserRun(Accepted, who, db)))

catGetByBoundingBox ==
    \/ \E rq \in RejectedNoParams :
         Finish("catGetByBoundingBox", rq, ValidationResult(rq), {},
                Catch500(catGetByBoundingBoxRun(rq, {}, "ok")))
    \/ \E tr \in TopRights, bl \in BottomLefts, db \in DbOutcomes :
         LET rq == With(Accepted, "query", [topRight |-> tr, bottomLeft |-> bl])
         IN  Finish("catGetByBoundingBox", rq, <<>>, {},
                    Catch500(catGetByBoundingBoxRun(rq, {}, db)))

catPutAdmin ==
    \/ \E rq \in Rejected(CatIds) :
         Finish("catPutAdmin", rq, ValidationResult(rq), {},
                Catch500(catPutAdminRun(rq, {}, "ok")))
    \/ \E id \in CatIds, body \in CatUpdates, who \in Authenticated,
          db \in {"ok", "throws"} :
         LET rq == With(With(Accepted, "params", [id |-> id]), "body", body)
         IN  Finish("catPutAdmin", rq, <<>>, who,
                    Catch500(catPutAdminRun(rq, who, db)))

catDeleteAdmin ==
    \/ \E rq \in Rejected(CatIds) :
         Finish("catDeleteAdmin", rq, ValidationResult(rq), {},
                Catch500(catDeleteAdminRun(rq, {}, "ok")))
    \/ \E id \in CatIds, who \in Authenticated, db \in {"ok", "throws"} :
         LET rq == With(Accepted, "params", [id |-> id])
         IN  Finish("catDeleteAdmin", rq, <<>>, who,
                    Catch500(catDeleteAdminRun(rq, who, db)))

catDelete ==
    \/ \E rq \in Rejected(CatIds) :
         Finish("catDelete", rq, ValidationResult(rq), {},
                Catch500(catDeleteRun(rq, {}, "ok")))
    \/ \E id \in CatIds, db \in {"ok", "throws"} :
         LET rq == With(Accepted, "params", [id |-> id])
         IN  Finish("catDelete", rq, <<>>, {},
                    Catch500(catDeleteRun(rq, {}, db)))

catPut ==
    \/ \E rq \in Rejected(CatIds) :
         Finish("catPut", rq, ValidationResult(rq), {},
                Catch500(catPutRun(rq, {}, "ok")))
    \/ \E id \in CatIds, body \in CatUpdates, db \in {"ok", "throws"} :
         LET rq == With(With(Accepted, "params", [id |-> id]), "body", body)
         IN  Finish("catPut", rq, <<>>, {},
                    Catch500(catPutRun(rq, {}, db)))

catGet ==
    \/ \E rq \in Rejected(CatIds) :
         Finish("catGet", rq, ValidationResult(rq), {},
                Catch500(catGetRun(rq, {}, "ok")))
    \/ \E id \in CatIds, db \in {"ok", "throws"} :
         LET rq == With(Accepted, "params", [id |-> id])
         IN  Finish("catGet", rq, <<>>, {},
                    Catch500(catGetRun(rq, {}, db)))

catListGet ==
    \E db \in DbOutcomes :
        Finish("catListGet", Accepted, <<>>, {},
               Catch500(catListGetRun(Accepted, {}, db)))

catPost ==
    \/ \E rq \in RejectedNoParams :
         Finish("catPost", rq, ValidationResult(rq), {},
                Catch500(catPostRun(rq, {}, "ok")))
    \/ \E body \in CatInputs, file \in Files, coords \in Coords,
          who \in Authenticated, db \in {"ok", "throws"} :
         LET rq == With(With(With(Accepted, "body", body), "file", file),
                        "coords", coords)
         IN  /\ (file # {} /\ db = "ok") => Cardinality(cats) < MaxCats
             /\ Finish("catPost", rq, <<>>, who,
                       Catch500(catPostRun(rq, who, db)))

userGet ==
    \/ \E rq \in Rejected(UserIds) :
         Finish("userGet", rq, ValidationResult(rq), {},
                Catch500(userGetRun(rq, {}, "ok")))
    \/ \E id \in UserIds, db \in {"ok", "throws"} :
         LET rq == With(Accepted, "params", [id |-> id])
         IN  Finish("userGet", rq, <<>>, {},
                    Catch500(userGetRun(rq, {}, db)))

userListGet ==
    \E db \in DbOutcomes :
        Finish("userListGet", Accepted, <<>>, {},
               Catch500(userListGetRun(Accepted, {}, db)))

userPost ==
    \/ \E rq \in RejectedNoParams :
         Finish("userPost", rq, ValidationResult(rq), {},
                Catch500(userPostRun(rq, {}, "ok")))
    \/ \E body \in UserInputs, db \in {"ok", "throws"} :
         LET rq == With(Accepted, "body", body)
         IN  /\ db = "ok" => UserIds \ { u._id : u \in users } # {}
             /\ Finish("userPost", rq, <<>>, {},
                       Catch500(userPostRun(rq, {}, db)))

userPutCurrent ==
    \/ \E rq \in RejectedNoParams :
         Finish("userPutCurrent", rq, ValidationResult(rq), {},
                Catch500(userPutCurrentRun(rq, {}, "ok")))
    \/ \E body \in UserUpdates, who \in Authenticated, db \in {"ok", "throws"} :
         LET rq == With(Accepted, "body", body)
         IN  Finish("userPutCurrent", rq, <<>>, who,
                    Catch500(userPutCurrentRun(rq, who, db)))

\* the route has no parameters: req.params is the empty object; the request
\* itself may carry a failure, which validationResult(req.params) does not see
userDeleteCurrent ==
    \E e \in SeqsUpTo(ErrorKinds, 1), who \in Authenticated,
       db \in {"ok", "throws"} :
        LET rq == With([validationErrors |-> e], "params", <<>>)
        IN  Finish("userDeleteCurrent", rq, ValidationResult(rq.params), who,
                   CatchForward(userDeleteCurrentRun(rq, who, db)))

checkToken ==
    \E who \in Callers :
        Finish("checkToken", Accepted, <<>>, who, checkTokenRun(Accepted, who, "ok"))

Next ==
    \/ catGetByUser
    \/ catGetByBoundingBox
    \/ catPutAdmin
    \/ catDeleteAdmin
    \/ catDelete
    \/ catPut
    \/ catGet
    \/ catListGet
    \/ catPost
    \/ userGet
    \/ userListGet
    \/ userPost
    \/ userPutCurrent
    \/ userDeleteCurrent
    \/ checkToken

Spec == Init /\ [][Next]_vars

-----------------------------------------------------------------------------
(* Properties *)

NextErrors ==
    [i \in 1 .. Len(SelectSeq(calls, LAMBDA c : c.fn = "next")) |->
        SelectSeq(calls, LAMBDA c : c.fn = "next")[i].arg]

JsonBodies ==
    [i \in 1 .. Len(SelectSeq(calls, LAMBDA c : c.fn = "json")) |->
        SelectSeq(calls, LAMBDA c : c.fn = "json")[i].arg]

Unchanged == cats = cats0 /\ users = users0

\* the handlers that apply the validation gate
GatedHandlers ==
    { "catGetByUser", "catGetByBoundingBox", "catPutAdmin", "catDeleteAdmin",
      "catDelete", "catPut", "catGet", "catPost", "userGet", "userPost",
      "userPutCurrent", "userDeleteCurrent" }

\* the failures as "<msg>: <param>", in the validator's order, joined by ", "
RECURSIVE Segments(_)
Segments(errs) ==
    IF Len(errs) = 0 THEN ""
    ELSE IF Len(errs) = 1 THEN errs[1].msg \o ": " \o errs[1].param
    ELSE errs[1].msg \o ": " \o errs[1].param \o ", " \o Segments(Tail(errs))

\* C1: in a handler with the validation gate, when the validator reports a
\* failure the error forwarded to next has status 400 and the message made
\* of one "<msg>: <param>" per failure, in order, joined by ", ".
C1_ValidationFailureForwards400 ==
    (handler \in GatedHandlers /\ errors # <<>>)
        => NextErrors = << CustomError(Segments(errors), 400) >>

NonAdminCaller == caller # {} /\ \A u \in caller : u.role # "admin"
AdminCaller == caller # {} /\ \A u \in caller : u.role = "admin"

\* C3: catPutAdmin and catDeleteAdmin, given valid input by a caller whose
\* role is not "admin", write nothing, send no response and forward no error.
C3_NonAdminIsSilentNoOp ==
    (handler \in {"catPutAdmin", "catDeleteAdmin"} /\ errors = <<>>
        /\ NonAdminCaller)
        => (calls = <<>> /\ dbOps = <<>> /\ Unchanged)

\* a caller of role "user" asks catDeleteAdmin for a cat that exists
C3_Witness ==
    /\ handler = "catDeleteAdmin"
    /\ errors = <<>>
    /\ NonAdminCaller
    /\ FindById(cats, req.params.id) # {}

\* C4: every error forwarded to next carries a message and a numeric
\* statusCode, and a validation failure or a missing upload is forwarded
\* with status 500.
C4_ForwardedErrorsAreTagged ==
    /\ \A i \in 1 .. Len(NextErrors) :
          /\ DOMAIN NextErrors[i] = {"message", "statusCode"}
          /\ NextErrors[i].statusCode \in Nat
    /\ errors # <<>>
          => \A i \in 1 .. Len(NextErrors) : NextErrors[i].statusCode = 500

\* C5: catPost with valid fields and no file forwards a BadRequest of status
\* 400, "File not found", and inserts no cat.
C5_MissingFileIs400 ==
    (handler = "catPost" /\ errors = <<>> /\ req.file = {})
        => /\ NextErrors = << CustomError("File not found", 400) >>
           /\ JsonBodies = <<>>
           /\ cats = cats0

\* the lookup of the invocation came back (it did not reject)
NoRejection == \A i \in 1 .. Len(dbOps) : dbOps[i].outcome # "throws"

MissingCat ==
    /\ handler \in {"catDelete", "catDeleteAdmin", "catPut", "catPutAdmin"}
    /\ errors = <<>>
    /\ FindById(cats0, req.params.id) = {}
    /\ NoRejection

NotFoundMessage ==
    IF handler \in {"catDelete", "catDeleteAdmin"}
    THEN "No cat found" ELSE "Cat not found"

ForwardsNotFound ==
    /\ calls = << [fn |-> "next", arg |-> CustomError(NotFoundMessage, 404)] >>
    /\ Unchanged

\* C6, as claimed: on catDelete, catDeleteAdmin, catPut and catPutAdmin, a
\* valid request for an identity that matches no stored cat forwards
\* NotFound (404) with the route's message, responds nothing and changes
\* nothing.
C6_MissingCatIs404 == MissingCat => ForwardsNotFound

\* C6, amended: the same on catDelete and catPut, and on catDeleteAdmin and
\* catPutAdmin when the caller's role is "admin".
C6_MissingCatIs404ForAdmin ==
    (MissingCat /\ (handler \in {"catDeleteAdmin", "catPutAdmin"} => AdminCaller))
        => ForwardsNotFound

\* an admin asks catDeleteAdmin for a cat that is not there
C6_Witness ==
    /\ handler = "catDeleteAdmin"
    /\ MissingCat
    /\ AdminCaller
    /\ dbOps # <<>>

\* C7: the document userPost hands to userModel.create has role "user",
\* whatever the body says, and so has the document the collection gains.
C7_CreatedUserHasRoleUser ==
    handler = "userPost"
        => /\ \A i \in 1 .. Len(dbOps) :
                dbOps[i].op = "create" => dbOps[i].doc.role = "user"
           /\ \A u \in users \ users0 : u.role = "user"

\* a body with role "admin" was accepted and its user inserted
C7_Witness ==
    /\ handler = "userPost"
    /\ errors = <<>>
    /\ "role" \in DOMAIN req.body
    /\ req.body.role = "admin"
    /\ users # users0

\* C8: checkToken without a session user forwards Forbidden (403) and
\* responds nothing; with one it responds {_id, user_name, email} of the
\* session user; either way it issues no database operation.
C8_CheckToken ==
    handler = "checkToken"
        => /\ dbOps = <<>>
           /\ Unchanged
           /\ caller = {} =>
                /\ JsonBodies = <<>>
                /\ Len(NextErrors) = 1
                /\ NextErrors[1].statusCode = 403
           /\ \A u \in caller :
                calls = << [fn |-> "json",
                            arg |-> DocBody([_id |-> u._id,
                                             user_name |-> u.user_name,
                                             email |-> u.email])] >>

\* checkToken ran without a session user while the collection holds a user
C8_Witness ==
    /\ handler = "checkToken"
    /\ caller = {}
    /\ users # {}

\* a string of an optional "-" and decimal digits
IsInteger(s) ==
    /\ Len(s) > 0
    /\ \A i \in 1 .. Len(s) :
          s[i] \in DOMAIN DigitValue \/ (i = 1 /\ s[i] = "-" /\ Len(s) > 1)

\* C9: for topRight = "latA,lngA" and bottomLeft = "latB,lngB" of integer
\* components, catGetByBoundingBox hands rectangleBounds the corners
\* {lat: latA, lng: lngA} and {lat: latB, lng: lngB}, and responds with the
\* cats whose location is within the rectangle they bound.
C9_CornersAreLatLng ==
    (handler = "catGetByBoundingBox" /\ errors = <<>>)
        => LET tr == SplitPair(req.query.topRight)
               bl == SplitPair(req.query.bottomLeft)
           IN  (\A c \in {tr[1], tr[2], bl[1], bl[2]} : IsInteger(c))
                 => LET a == [lat |-> ParseInt(tr[1]), lng |-> ParseInt(tr[2])]
                        b == [lat |-> ParseInt(bl[1]), lng |-> ParseInt(bl[2])]
                    IN  /\ rectArgs = << <<a, b>> >>
                        /\ \A i \in 1 .. Len(JsonBodies) :
                              JsonBodies[i].docs =
                                { c \in cats :
                                    /\ b.lat <= c.location.lat
                                    /\ c.location.lat <= a.lat
                                    /\ b.lng <= c.location.lng
                                    /\ c.location.lng <= a.lng }

\* C10: an invocation calls at most one of res.json and next, at most once.
C10_AtMostOneCall == Len(calls) <= 1

====
